---- MODULE Spec2Model ----
(***************************************************************************)
(* SingleApplication: instance arbitration over a shared memory block and  *)
(* the primary-side handshake parser of the local socket protocol.         *)
(*                                                                         *)
(* Spec          the startup arbitration of NProcs processes that share    *)
(*               one block identifier (SingleApplication.cpp constructor,  *)
(*               SingleApplicationPrivate destructor and queries).         *)
(* ListenerSpec  the callbacks of the primary on the connections of its    *)
(*               QLocalServer, fed by peers that write a handshake, a      *)
(*               payload, or something else (SingleApplication_p.cpp).     *)
(* FairSpec      Spec with the lock granted fairly and released by its     *)
(*               holders.                                                  *)
(* CrashSpec     Spec with primaries that end without their destructor.    *)
(* SendSpec      sendMessage calls of the secondaries of a running         *)
(*               primary, read by the callbacks of ListenerSpec.           *)
(* SlotSpec      ListenerSpec with a slot of the host that runs an event   *)
(*               loop while messageReceived is emitted.                    *)
(* LongLivedSpec Spec started from the block of a primary with which       *)
(*               2^32 - 2 secondaries have registered.                     *)
(* ConnectSpec   SendSpec with connections that are established after      *)
(*               connectToPrimary has returned.                            *)
(***************************************************************************)
EXTENDS Integers, Sequences, FiniteSets, TLC

(***************************************************************************)
(* Bounds of the model.                                                    *)
(***************************************************************************)
NProcs == 3
MaxLaunches == 4

Procs == 1..NProcs
NoProc == 0

(***************************************************************************)
(* Fixed-width integers.  A quint32 is kept as its four bytes and a qint64 *)
(* as its eight bytes, in memory order (little endian), so that the value  *)
(* wraps at its width and the checksum sees the bytes the code sees.       *)
(***************************************************************************)
U32(n) == <<n % 256, (n \div 256) % 256, (n \div 65536) % 256, 0>>

Inc32(w) ==
    IF w[1] < 255 THEN <<w[1] + 1, w[2], w[3], w[4]>>
    ELSE IF w[2] < 255 THEN <<0, w[2] + 1, w[3], w[4]>>
    ELSE IF w[3] < 255 THEN <<0, 0, w[3] + 1, w[4]>>
    ELSE IF w[4] < 255 THEN <<0, 0, 0, w[4] + 1>>
    ELSE <<0, 0, 0, 0>>

MinusOne32 == <<255, 255, 255, 255>>
MinusOne64 == <<255, 255, 255, 255, 255, 255, 255, 255>>
Zero64 == <<0, 0, 0, 0, 0, 0, 0, 0>>

(***************************************************************************)
(* qChecksum: CRC-16 of ISO 3309, as Qt computes it, four bits at a time.  *)
(***************************************************************************)
XorBit(a, b) == ((a % 2) + (b % 2)) % 2

XorNib == [a \in 0..15 |-> [b \in 0..15 |->
             XorBit(a, b) + 2 * XorBit(a \div 2, b \div 2)
             + 4 * XorBit(a \div 4, b \div 4) + 8 * XorBit(a \div 8, b \div 8)]]

Xor16(a, b) == XorNib[a % 16][b % 16]
               + 16 * XorNib[(a \div 16) % 16][(b \div 16) % 16]
               + 256 * XorNib[(a \div 256) % 16][(b \div 256) % 16]
               + 4096 * XorNib[(a \div 4096) % 16][(b \div 4096) % 16]

\* crc_tbl[i] = i * 0x1081
crc_tbl(i) == i * 4225

CrcNibble(crc, c) == Xor16(crc \div 16, crc_tbl(XorNib[crc % 16][c % 16]))

CrcByte(crc, c) == CrcNibble(CrcNibble(crc, c), c \div 16)

\* The test on next makes TLC compute it before the recursive call.
RECURSIVE CrcLoop(_, _, _, _)
CrcLoop(crc, data, i, len) ==
    IF i > len THEN crc
    ELSE LET next == CrcByte(crc, data[i])
         IN  IF next >= 0 THEN CrcLoop(next, data, i + 1, len) ELSE 0

qChecksum(data, len) == 65535 - CrcLoop(65535, data, 1, len)

(***************************************************************************)
(* InstancesInfo, the coordination block.                                  *)
(***************************************************************************)
primaryUserSize == 128

\* offsetof(InstancesInfo, m_checksum): bool, 3 bytes of padding, quint32, qint64
ChecksumOffset == 16

ZeroUser == [i \in 1..primaryUserSize |-> 0]

\* A segment as the operating system hands it out: every byte zero.
FreshBlock == [m_primary |-> FALSE, m_secondary |-> U32(0), m_primaryPid |-> Zero64,
               m_checksum |-> 0, m_primaryUser |-> ZeroUser]

BlockBytes(b) == <<IF b.m_primary THEN 1 ELSE 0, 0, 0, 0>> \o b.m_secondary \o b.m_primaryPid

\* The headers that occur within the bounds, and the checksum of each,
\* computed once.
KnownHeaders ==
    {<<pr, 0, 0, 0>> \o U32(n) \o pid :
        pr \in {0, 1}, n \in 0..MaxLaunches,
        pid \in {MinusOne64, Zero64} \cup {<<q, 0, 0, 0, 0, 0, 0, 0>> : q \in Procs}}

HeaderChecksum == [h \in KnownHeaders |-> qChecksum(h, ChecksumOffset)]

\* qChecksum(m_memory->constData(), offsetof(InstancesInfo, m_checksum))
blockChecksum(b) ==
    LET h == BlockBytes(b)
    IN  IF h \in KnownHeaders THEN HeaderChecksum[h]
        ELSE qChecksum(h, ChecksumOffset)

\* initializeMemoryBlock that leaves m_checksum as it was
initializeMemoryBlockStale(b) ==
    [b EXCEPT !.m_primary = FALSE, !.m_secondary = U32(0),
              !.m_primaryPid = MinusOne64,
              !.m_primaryUser = [@ EXCEPT ![1] = 0]]

initializeMemoryBlock(b) ==
    LET w == [b EXCEPT !.m_primary = FALSE, !.m_secondary = U32(0),
                       !.m_primaryPid = MinusOne64,
                       !.m_primaryUser = [@ EXCEPT ![1] = 0]]
    IN  [w EXCEPT !.m_checksum = blockChecksum(w)]

applicationPid(p) == <<p, 0, 0, 0, 0, 0, 0, 0>>

getUsername(p) == IF p % 2 = 1 THEN <<97, 108>> ELSE <<98>>

Min(a, b) == IF a < b THEN a ELSE b

\* strncpy of usernameSize bytes, then the terminating NUL
CopyUser(buf, username) ==
    LET usernameSize == Min(Len(username), primaryUserSize - 1)
    IN  [i \in 1..primaryUserSize |->
            IF i <= usernameSize THEN username[i]
            ELSE IF i = usernameSize + 1 THEN 0
            ELSE buf[i]]

\* The block as startPrimary leaves it.
startPrimaryBlock(b, p) ==
    LET w == [b EXCEPT !.m_primary = TRUE,
                       !.m_primaryPid = applicationPid(p),
                       !.m_primaryUser = CopyUser(@, getUsername(p))]
    IN  [w EXCEPT !.m_checksum = blockChecksum(w)]

\* The block as the secondary branch leaves it.
registerSecondaryBlock(b) ==
    LET w == [b EXCEPT !.m_secondary = Inc32(@)]
    IN  [w EXCEPT !.m_checksum = blockChecksum(w)]

\* destructorBlock without its test of m_server
destructorBlockUnguarded(b, hasServer) ==
    LET w == [b EXCEPT !.m_primary = FALSE, !.m_primaryPid = MinusOne64,
                       !.m_primaryUser = [@ EXCEPT ![1] = 0]]
    IN  [w EXCEPT !.m_checksum = blockChecksum(w)]

\* The block as the destructor leaves it: if (m_server) { ... }
destructorBlock(b, hasServer) ==
    IF hasServer
    THEN LET w == [b EXCEPT !.m_primary = FALSE, !.m_primaryPid = MinusOne64,
                            !.m_primaryUser = [@ EXCEPT ![1] = 0]]
         IN  [w EXCEPT !.m_checksum = blockChecksum(w)]
    ELSE b

\* The bytes of a char buffer up to its first NUL.
RECURSIVE CStr(_, _)
CStr(buf, i) == IF i > Len(buf) \/ buf[i] = 0 THEN <<>> ELSE <<buf[i]>> \o CStr(buf, i + 1)

NewInstance == 1
SecondaryInstance == 2
Reconnect == 3

(***************************************************************************)
(* The handshake of the local socket protocol.  QDataStream writes and     *)
(* reads integers most significant byte first; a QByteArray goes as its    *)
(* quint32 length and then its bytes.                                      *)
(***************************************************************************)
MaxPayload == 2
ChunkSize == 4
NConns == 1
MaxSends == 2

Conns == 1..NConns

\* The identifiers at hand: m_blockServerName is base64 text.
Idents == {<<97>>, <<97, 98>>}
ConnectionTypes == {NewInstance, SecondaryInstance, Reconnect}
InstanceIds == {U32(1), MinusOne32}

\* A quint32 or quint64 of the model (bytes in memory order) on the stream.
RECURSIVE Reversed(_)
Reversed(s) == IF s = <<>> THEN <<>> ELSE Reversed(Tail(s)) \o <<Head(s)>>

BE16(n) == <<n \div 256, n % 256>>

\* static_cast<quint64>(initMessage.length())
BE64(n) == <<0, 0, 0, 0, 0, 0, n \div 256, n % 256>>

\* writeStream << QByteArray
QByteArrayOut(ba) == Reversed(U32(Len(ba))) \o ba

\* connectToPrimary: the name, the type and the instance number, followed
\* by the checksum of these bytes.
initMessage(name, connectionType, instanceNumber) ==
    LET body == QByteArrayOut(name) \o <<connectionType>> \o Reversed(instanceNumber)
    IN  body \o BE16(qChecksum(body, Len(body)))

\* m_socket->write(header); m_socket->write(initMessage)
handshake(name, connectionType, instanceNumber) ==
    LET msg == initMessage(name, connectionType, instanceNumber)
    IN  BE64(Len(msg)) \o msg

\* What a peer of the primary may put on a connection: the handshake of
\* connectToPrimary, or one with a wrong checksum, or a header announcing
\* one body byte, or a header whose length has its top bit set.
AllPeerFrames ==
    [name : Idents, type : ConnectionTypes, id : InstanceIds, fault : {"none"}]
    \cup [name : Idents, type : {NewInstance}, id : {MinusOne32},
          fault : {"checksum", "zero", "short", "negative"}]

Written(f) ==
    LET good == handshake(f.name, f.type, f.id)
        n == Len(good)
    IN  CASE f.fault = "none" -> good
          [] f.fault = "checksum" ->
                [good EXCEPT ![n] = (@ + 1) % 256]
          [] f.fault = "zero" -> BE64(0)
          [] f.fault = "short" -> BE64(1) \o <<0>>
          [] f.fault = "negative" -> <<128, 0, 0, 0, 0, 0, 0, 0>>

\* The bytes of each frame, computed once.
FrameBytes == [f \in AllPeerFrames |-> Written(f)]

\* The payload a peer sends after its handshake.
Payload(n) == [i \in 1..n |-> i]

Take(s, n) == SubSeq(s, 1, Min(n, Len(s)))
Drop(s, n) == SubSeq(s, Min(n, Len(s)) + 1, Len(s))

\* m_messageLength, kept as the eight bytes read from the header: as a
\* qint64 it is negative when the top bit is set.
LengthNegative(len8) == len8[1] >= 128
LengthSmall(len8) == \A i \in 1..6 : len8[i] = 0
LengthValue(len8) == len8[7] * 256 + len8[8]

\* !(socket->bytesAvailable() < m_messageLength)
LengthReached(avail, len8) ==
    \/ LengthNegative(len8)
    \/ LengthSmall(len8) /\ Len(avail) >= LengthValue(len8)

\* socket->read(m_messageLength): nothing for a negative maxSize
ReadBytes(avail, len8) ==
    IF LengthNegative(len8) THEN <<>> ELSE Take(avail, LengthValue(len8))

UnreadBytes(avail, len8) ==
    IF LengthNegative(len8) THEN avail ELSE Drop(avail, LengthValue(len8))

\* QLatin1String(QByteArray) ends at the first NUL.
QLatin1String(ba) == CStr(ba, 1)

\* readStream >> latin1Name >> connectionTypeValue >> instanceId >>
\* messageChecksum.  A read that finds too few bytes takes what is left,
\* yields 0 and sets the status to ReadPastEnd.
ReadFields(messageBytes) ==
    LET n == Len(messageBytes)
        lenOk == n >= 4
        len4 == IF lenOk THEN SubSeq(messageBytes, 1, 4) ELSE <<0, 0, 0, 0>>
        isNull == lenOk /\ len4 = <<255, 255, 255, 255>>
        nameLen == len4[3] * 256 + len4[4]
        nameOk == /\ lenOk /\ ~isNull
                  /\ len4[1] = 0 /\ len4[2] = 0
                  /\ 4 + nameLen <= n
        p1 == IF isNull THEN 4 ELSE IF nameOk THEN 4 + nameLen ELSE n
        typeOk == p1 + 1 <= n
        p2 == IF typeOk THEN p1 + 1 ELSE n
        idOk == p2 + 4 <= n
        p3 == IF idOk THEN p2 + 4 ELSE n
        sumOk == p3 + 2 <= n
    IN  [latin1Name |-> IF nameOk THEN SubSeq(messageBytes, 5, 4 + nameLen) ELSE <<>>,
         connectionType |-> IF typeOk THEN messageBytes[p1 + 1] ELSE 0,
         instanceId |-> IF idOk THEN Reversed(SubSeq(messageBytes, p2 + 1, p2 + 4))
                        ELSE U32(0),
         messageChecksum |-> IF sumOk
                             THEN messageBytes[p3 + 1] * 256 + messageBytes[p3 + 2]
                             ELSE 0,
         statusOk |-> (isNull \/ nameOk) /\ typeOk /\ idOk /\ sumOk]

\* The checksum taken over the whole of messageBytes
actualChecksumOfAll(messageBytes) == qChecksum(messageBytes, Len(messageBytes))

\* qChecksum(messageBytes.constData(), messageBytes.length() - sizeof(quint16))
actualChecksum(messageBytes) == qChecksum(messageBytes, Len(messageBytes) - 2)

\* static_cast<quint32>(messageBytes.length() - sizeof(quint16)), the length
\* given to qChecksum, as the four bytes of the quint32: the difference is
\* unsigned, so for fewer than two bytes it wraps to 0xFFFFFFFE or 0xFFFFFFFF.
checksumLength(messageBytes) ==
    LET n == Len(messageBytes)
    IN  IF n >= 2 THEN U32(n - 2)
        ELSE [i \in 1..4 |-> IF i = 1 THEN 254 + n ELSE 255]

\* qChecksum reads checksumLength bytes from the start of messageBytes:
\* they are bytes of messageBytes.
ChecksumInsideBody(length, checksumLen) == checksumLen \in {U32(k) : k \in 0..length}

\* readInitMessageBody up to isValid.  For fewer than two bytes the length
\* given to qChecksum wraps below zero and the read goes beyond the array;
\* if the process gets past that, the status is ReadPastEnd, which alone
\* decides isValid.
Validate(messageBytes, blockServerName) ==
    LET f == ReadFields(messageBytes)
    IN  [done |-> TRUE,
         length |-> Len(messageBytes),
         checksumLength |-> checksumLength(messageBytes),
         latin1Name |-> f.latin1Name,
         connectionType |-> f.connectionType,
         instanceId |-> f.instanceId,
         isValid |-> /\ f.statusOk
                     /\ QLatin1String(f.latin1Name) = blockServerName
                     /\ f.messageChecksum = actualChecksum(messageBytes)]

NotParsed ==
    [done |-> FALSE, length |-> 0, checksumLength |-> U32(0),
     latin1Name |-> <<>>, connectionType |-> 0, instanceId |-> U32(0),
     isValid |-> FALSE]

\* Emits instanceStarted for every SecondaryInstance, whatever m_options
emitsInstanceStartedAlways(connectionType, options) ==
    \/ connectionType = NewInstance
    \/ connectionType = SecondaryInstance

\* connectionType == NewInstance || (connectionType == SecondaryInstance
\*     && m_options.testFlag(SecondaryNotification))
emitsInstanceStarted(connectionType, options) ==
    \/ connectionType = NewInstance
    \/ /\ connectionType = SecondaryInstance
       /\ "SecondaryNotification" \in options

\* ConnectionInfo() and the stages of a connection
Header == 0
Body == 1
Connected == 2
ConnectionInfo == [m_messageLength |-> Zero64, m_instanceId |-> U32(0), m_stage |-> Header]

\* emit instanceStarted(); emit messageReceived(instanceId, message), each
\* with whether the handshake of the connection had been validated.
InstanceStartedEvent(validated) ==
    [sig |-> "instanceStarted", instanceId |-> U32(0), message |-> <<>>,
     validated |-> validated]
MessageReceivedEvent(instanceId, message, validated) ==
    [sig |-> "messageReceived", instanceId |-> instanceId, message |-> message,
     validated |-> validated]

\* onDataAvailable: messageReceived(instanceId, socket->readAll())
onDataAvailable(avail, instanceId, validated) ==
    <<MessageReceivedEvent(instanceId, avail, validated)>>

\* onClientConnectionClosed: if (socket->bytesAvailable() > 0) onDataAvailable
onClientConnectionClosed(avail, instanceId, validated) ==
    IF Len(avail) > 0 THEN onDataAvailable(avail, instanceId, validated) ELSE <<>>

VARIABLES
    pc,               \* where each process is in its constructor and after
    segment,          \* the shared memory segment exists
    attached,         \* the processes attached to the segment
    block,            \* the InstancesInfo in the segment
    lockedBy,         \* the holder of the QSharedMemory lock, or NoProc
    expired,          \* timer.elapsed() is past 5000 for the process
    m_server,         \* the process has its QLocalServer
    m_instanceNumber, \* instance number of each process
    m_socket,         \* state of the outbound QLocalSocket
    role,             \* outcome of the startup of each process
    connectLog,       \* the connectToPrimary calls of each process
    assigned,         \* ids handed out since the last startPrimary
    reinitialized,    \* the process ran the timeout reinitialization
    launches,         \* processes started so far
    m_blockServerName,\* the identifier of the primary
    m_options,        \* the mode flags of the primary
    sock,             \* each accepted QLocalSocket: its state
    wire,             \* bytes of the peer that have not arrived yet
    buf,              \* bytes that arrived and were not read yet
    m_connectionMap,  \* the ConnectionInfo of each socket in the map
    events,           \* the signals emitted for each connection, in order
    peer,             \* what the peer of each connection set out to send
    parsed,           \* what readInitMessageBody made of the handshake
    crashed,          \* the primary ended in a read beyond an array
    calls,            \* the sendMessage calls of each process, as they returned
    pending,          \* bytes left in the write buffer of each m_socket
    conn              \* the accepted socket at the other end of each m_socket

arbVars == <<pc, segment, attached, block, lockedBy, expired, m_server,
             m_instanceNumber, m_socket, role, connectLog, assigned,
             reinitialized, launches>>

sndVars == <<calls, pending, conn>>

lsnVars == <<m_blockServerName, m_options, sock, wire, buf, m_connectionMap,
             events, peer, parsed, crashed, sndVars>>

vars == <<arbVars, lsnVars>>

NoConn == 0

NoPeer == [name |-> <<>>, type |-> 0, id |-> U32(0), fault |-> "none", payload |-> 0]

\* No connection has been accepted.
NoConnections ==
    /\ sock = [c \in Conns |-> "none"]
    /\ wire = [c \in Conns |-> <<>>]
    /\ buf = [c \in Conns |-> <<>>]
    /\ m_connectionMap = <<>>
    /\ events = [c \in Conns |-> <<>>]
    /\ peer = [c \in Conns |-> NoPeer]
    /\ parsed = [c \in Conns |-> NotParsed]
    /\ crashed = FALSE
    /\ calls = [p \in Procs |-> <<>>]
    /\ pending = [p \in Procs |-> <<>>]
    /\ conn = [p \in Procs |-> NoConn]

Init ==
    /\ pc = [p \in Procs |-> "idle"]
    /\ segment = FALSE
    /\ attached = {}
    /\ block = FreshBlock
    /\ lockedBy = NoProc
    /\ expired = [p \in Procs |-> FALSE]
    /\ m_server = [p \in Procs |-> FALSE]
    /\ m_instanceNumber = [p \in Procs |-> MinusOne32]
    /\ m_socket = [p \in Procs |-> "null"]
    /\ role = [p \in Procs |-> "none"]
    /\ connectLog = [p \in Procs |-> <<>>]
    /\ assigned = <<>>
    /\ reinitialized = [p \in Procs |-> FALSE]
    /\ launches = 0
    /\ m_blockServerName = <<97>>
    /\ m_options = {}
    /\ NoConnections

(***************************************************************************)
(* SingleApplication::SingleApplication.  The code between a lock() and    *)
(* the unlock() that follows it is one step, taken when the lock is free;  *)
(* the constructor arguments are drawn where the code first reads them.    *)
(* A process that has exited leaves its slot to a later launch.            *)
(***************************************************************************)

\* m_memory->create(sizeof(InstancesInfo)): succeeds when no segment exists.
Create(p) ==
    /\ pc[p] = "idle"
    /\ launches < MaxLaunches
    /\ launches' = launches + 1
    /\ IF segment
       THEN /\ pc' = [pc EXCEPT ![p] = "attach"]
            /\ UNCHANGED <<segment, attached, block>>
       ELSE /\ pc' = [pc EXCEPT ![p] = "created"]
            /\ segment' = TRUE
            /\ attached' = {p}
            /\ block' = FreshBlock
    /\ UNCHANGED <<lockedBy, expired, m_server, m_instanceNumber, m_socket, role,
                   connectLog, assigned, reinitialized>>
    /\ UNCHANGED lsnVars

\* Attach that goes on to the wait loop when attach() has failed
AttachIgnoringFailure(p) ==
    /\ pc[p] = "attach"
    /\ attached' = IF segment THEN attached \cup {p} ELSE attached
    /\ pc' = [pc EXCEPT ![p] = "loop"]
    /\ UNCHANGED <<segment, block, lockedBy, expired, m_server, m_instanceNumber,
                   m_socket, role, connectLog, assigned, reinitialized, launches>>
    /\ UNCHANGED lsnVars

\* m_memory->attach(); on failure delete d and exit(EXIT_FAILURE)
Attach(p) ==
    /\ pc[p] = "attach"
    /\ IF segment
       THEN /\ attached' = attached \cup {p}
            /\ pc' = [pc EXCEPT ![p] = "loop"]
            /\ UNCHANGED role
       ELSE /\ pc' = [pc EXCEPT ![p] = "exit_failure"]
            /\ role' = [role EXCEPT ![p] = "Failed"]
            /\ UNCHANGED attached
    /\ UNCHANGED <<segment, block, lockedBy, expired, m_server, m_instanceNumber,
                   m_socket, connectLog, assigned, reinitialized, launches>>
    /\ UNCHANGED lsnVars

\* the creator: lock(); initializeMemoryBlock(); unlock(); timer.start()
CreatorInit(p) ==
    /\ pc[p] = "created"
    /\ lockedBy = NoProc
    /\ block' = initializeMemoryBlock(block)
    /\ pc' = [pc EXCEPT ![p] = "loop"]
    /\ UNCHANGED <<segment, attached, lockedBy, expired, m_server,
                   m_instanceNumber, m_socket, role, connectLog, assigned,
                   reinitialized, launches>>
    /\ UNCHANGED lsnVars

\* More than 5000 ms pass while the process waits for the lock.
TimerElapses(p) ==
    /\ pc[p] = "loop"
    /\ ~expired[p]
    /\ expired' = [expired EXCEPT ![p] = TRUE]
    /\ UNCHANGED <<pc, segment, attached, block, lockedBy, m_server,
                   m_instanceNumber, m_socket, role, connectLog, assigned,
                   reinitialized, launches>>
    /\ UNCHANGED lsnVars

\* One turn of the wait loop that does not break: lock(), the checksum
\* differs, initializeMemoryBlock() once the timer is past 5000, unlock(),
\* and QThread::sleep(8..17): when the sleep returns at least 8 s have
\* passed, so the timer is past 5000 at the next turn.
LoopRetry(p) ==
    /\ pc[p] = "loop"
    /\ lockedBy = NoProc
    /\ blockChecksum(block) # block.m_checksum
    /\ IF expired[p]
       THEN /\ block' = initializeMemoryBlock(block)
            /\ reinitialized' = [reinitialized EXCEPT ![p] = TRUE]
       ELSE UNCHANGED <<block, reinitialized>>
    /\ expired' = [expired EXCEPT ![p] = TRUE]
    /\ UNCHANGED <<pc, segment, attached, lockedBy, m_server,
                   m_instanceNumber, m_socket, role, connectLog, assigned, launches>>
    /\ UNCHANGED lsnVars

\* lock(); the checksum matches: break
LoopBreak(p) ==
    /\ pc[p] = "loop"
    /\ lockedBy = NoProc
    /\ blockChecksum(block) = block.m_checksum

\* if (!instanceInfo->m_primary) { startPrimary(); unlock(); return; }
BecomePrimary(p) ==
    /\ ~block.m_primary
    /\ LoopBreak(p)
    /\ m_server' = [m_server EXCEPT ![p] = TRUE]
    /\ block' = startPrimaryBlock(block, p)
    /\ m_instanceNumber' = [m_instanceNumber EXCEPT ![p] = U32(0)]
    /\ role' = [role EXCEPT ![p] = "Primary"]
    /\ assigned' = <<>>
    /\ expired' = [expired EXCEPT ![p] = FALSE]
    /\ pc' = [pc EXCEPT ![p] = "running"]
    /\ UNCHANGED <<segment, attached, lockedBy, m_socket, connectLog,
                   reinitialized, launches>>
    /\ UNCHANGED lsnVars

\* if (allowSecondary) { m_secondary += 1; ... }: with SecondaryNotification
\* up to the wait inside connectToPrimary, the lock still held; without it
\* to unlock() and return.
BecomeSecondary(p, allowSecondary, notify) ==
    /\ allowSecondary
    /\ block.m_primary
    /\ LoopBreak(p)
    /\ block' = registerSecondaryBlock(block)
    /\ m_instanceNumber' = [m_instanceNumber EXCEPT ![p] = block'.m_secondary]
    /\ assigned' = Append(assigned, block'.m_secondary)
    /\ expired' = [expired EXCEPT ![p] = FALSE]
    /\ role' = [role EXCEPT ![p] = "Secondary"]
    /\ IF notify
       THEN /\ pc' = [pc EXCEPT ![p] = "sec_connect"]
            /\ lockedBy' = p
       ELSE /\ pc' = [pc EXCEPT ![p] = "running"]
            /\ UNCHANGED lockedBy
    /\ UNCHANGED <<segment, attached, m_server, m_socket, connectLog,
                   reinitialized, launches>>
    /\ UNCHANGED lsnVars

Listening == \E q \in Procs : m_server[q]

\* connectToPrimary(timeout, type) as it returns: at once for a socket that
\* is connected; connected is the outcome of connectToServer /
\* waitForConnected.
connectToPrimary(p, type, connected) ==
    IF m_socket[p] = "ConnectedState"
    THEN UNCHANGED <<m_socket, connectLog>>
    ELSE /\ connected => Listening
         /\ m_socket' = [m_socket EXCEPT ![p] =
                            IF connected THEN "ConnectedState" ELSE "ConnectingState"]
         /\ connectLog' = [connectLog EXCEPT ![p] =
                            Append(@, [type |-> type, locked |-> lockedBy = p,
                                       handshake |-> connected])]

\* SecondaryConnect that returns without m_memory->unlock()
SecondaryConnectHoldingLock(p, connected) ==
    /\ pc[p] = "sec_connect"
    /\ connectToPrimary(p, SecondaryInstance, connected)
    /\ pc' = [pc EXCEPT ![p] = "running"]
    /\ UNCHANGED <<segment, attached, block, lockedBy, expired, m_server,
                   m_instanceNumber, role, assigned, reinitialized, launches>>
    /\ UNCHANGED lsnVars

\* connectToPrimary(timeout, SecondaryInstance); m_memory->unlock(); return
SecondaryConnect(p, connected) ==
    /\ pc[p] = "sec_connect"
    /\ connectToPrimary(p, SecondaryInstance, connected)
    /\ lockedBy' = NoProc
    /\ pc' = [pc EXCEPT ![p] = "running"]
    /\ UNCHANGED <<segment, attached, block, expired, m_server,
                   m_instanceNumber, role, assigned, reinitialized, launches>>
    /\ UNCHANGED lsnVars

\* Reject with m_secondary counted before allowSecondary is tested
RejectCounting(p, allowSecondary) ==
    /\ ~allowSecondary
    /\ block.m_primary
    /\ LoopBreak(p)
    /\ block' = registerSecondaryBlock(block)
    /\ role' = [role EXCEPT ![p] = "Rejected"]
    /\ expired' = [expired EXCEPT ![p] = FALSE]
    /\ pc' = [pc EXCEPT ![p] = "rej_connect"]
    /\ UNCHANGED <<segment, attached, lockedBy, m_server,
                   m_instanceNumber, m_socket, connectLog, assigned,
                   reinitialized, launches>>
    /\ UNCHANGED lsnVars

\* allowSecondary is false: m_memory->unlock()
Reject(p, allowSecondary) ==
    /\ ~allowSecondary
    /\ block.m_primary
    /\ LoopBreak(p)
    /\ role' = [role EXCEPT ![p] = "Rejected"]
    /\ expired' = [expired EXCEPT ![p] = FALSE]
    /\ pc' = [pc EXCEPT ![p] = "rej_connect"]
    /\ UNCHANGED <<segment, attached, block, lockedBy, m_server,
                   m_instanceNumber, m_socket, connectLog, assigned,
                   reinitialized, launches>>
    /\ UNCHANGED lsnVars

\* connectToPrimary(timeout, NewInstance); then delete d; exit(EXIT_SUCCESS)
RejectConnect(p, connected) ==
    /\ pc[p] = "rej_connect"
    /\ connectToPrimary(p, NewInstance, connected)
    /\ pc' = [pc EXCEPT ![p] = "exit_success"]
    /\ UNCHANGED <<segment, attached, block, lockedBy, expired, m_server,
                   m_instanceNumber, role, assigned, reinitialized, launches>>
    /\ UNCHANGED lsnVars

(***************************************************************************)
(* primaryPid, primaryUser: lock(), read the field, unlock()               *)
(***************************************************************************)

QueryLock(p, which) ==
    /\ pc[p] = "running"
    /\ lockedBy = NoProc
    /\ lockedBy' = p
    /\ pc' = [pc EXCEPT ![p] = which]
    /\ UNCHANGED <<segment, attached, block, expired, m_server,
                   m_instanceNumber, m_socket, role, connectLog, assigned,
                   reinitialized, launches>>
    /\ UNCHANGED lsnVars

\* const qint64 pid = instanceInfo->m_primaryPid; unlock(); return pid
primaryPid(p) ==
    /\ pc[p] = "primaryPid"
    /\ block.m_primaryPid \in {MinusOne64} \cup {applicationPid(q) : q \in Procs}
    /\ lockedBy' = NoProc
    /\ pc' = [pc EXCEPT ![p] = "running"]
    /\ UNCHANGED <<segment, attached, block, expired, m_server,
                   m_instanceNumber, m_socket, role, connectLog, assigned,
                   reinitialized, launches>>
    /\ UNCHANGED lsnVars

\* const QByteArray username = instanceInfo->m_primaryUser; unlock(); return
primaryUser(p) ==
    /\ pc[p] = "primaryUser"
    /\ Len(CStr(block.m_primaryUser, 1)) < primaryUserSize
    /\ lockedBy' = NoProc
    /\ pc' = [pc EXCEPT ![p] = "running"]
    /\ UNCHANGED <<segment, attached, block, expired, m_server,
                   m_instanceNumber, m_socket, role, connectLog, assigned,
                   reinitialized, launches>>
    /\ UNCHANGED lsnVars

(***************************************************************************)
(* ~SingleApplicationPrivate                                               *)
(***************************************************************************)

\* The destructor, entered when the host application ends or from the
\* constructor's delete d: the socket is closed, then lock(), the
\* registration is cleared if m_server is set, unlock(), and delete m_memory
\* detaches: the segment goes with its last attachment.  The process is gone.
Destructor(p) ==
    /\ pc[p] \in {"running", "exit_success", "exit_failure"}
    /\ lockedBy = NoProc
    /\ m_socket' = [m_socket EXCEPT ![p] = "null"]
    /\ m_server' = [m_server EXCEPT ![p] = FALSE]
    /\ attached' = attached \ {p}
    /\ IF p \in attached /\ attached' = {}
       THEN /\ segment' = FALSE
            /\ block' = FreshBlock
       ELSE /\ UNCHANGED segment
            /\ block' = destructorBlock(block, m_server[p])
    /\ pc' = [pc EXCEPT ![p] = "idle"]
    /\ expired' = [expired EXCEPT ![p] = FALSE]
    /\ m_instanceNumber' = [m_instanceNumber EXCEPT ![p] = MinusOne32]
    /\ role' = [role EXCEPT ![p] = "none"]
    /\ connectLog' = [connectLog EXCEPT ![p] = <<>>]
    /\ reinitialized' = [reinitialized EXCEPT ![p] = FALSE]
    /\ UNCHANGED <<lockedBy, assigned, launches>>
    /\ UNCHANGED lsnVars

Next ==
    \E p \in Procs :
        \/ Create(p)
        \/ Attach(p)
        \/ CreatorInit(p)
        \/ TimerElapses(p)
        \/ LoopRetry(p)
        \/ BecomePrimary(p)
        \/ \E allowSecondary \in BOOLEAN, notify \in BOOLEAN :
              BecomeSecondary(p, allowSecondary, notify)
        \/ \E connected \in BOOLEAN : SecondaryConnect(p, connected)
        \/ \E allowSecondary \in BOOLEAN : Reject(p, allowSecondary)
        \/ \E connected \in BOOLEAN : RejectConnect(p, connected)
        \/ \E which \in {"primaryPid", "primaryUser"} : QueryLock(p, which)
        \/ primaryPid(p)
        \/ primaryUser(p)
        \/ Destructor(p)

Spec == Init /\ [][Next]_vars

(***************************************************************************)
(* Scheduling.  A process that waits in lock() gets the lock if it is free *)
(* again and again; a process that holds the lock goes on to its unlock(): *)
(* connectToPrimary, primaryPid and primaryUser return after at most two   *)
(* timeouts.                                                               *)
(***************************************************************************)

\* the steps of the constructor of p that begin with lock()
LockStep(p) ==
    \/ CreatorInit(p)
    \/ LoopRetry(p)
    \/ BecomePrimary(p)
    \/ \E allowSecondary \in BOOLEAN, notify \in BOOLEAN :
          BecomeSecondary(p, allowSecondary, notify)
    \/ \E allowSecondary \in BOOLEAN : Reject(p, allowSecondary)

\* the steps of p that end with unlock() and began in an earlier step
UnlockStep(p) ==
    \/ \E connected \in BOOLEAN : SecondaryConnect(p, connected)
    \/ primaryPid(p)
    \/ primaryUser(p)

Fairness == \A p \in Procs : SF_vars(LockStep(p)) /\ WF_vars(UnlockStep(p))

FairSpec == Init /\ [][Next]_vars /\ Fairness

(***************************************************************************)
(* A primary that ends without its destructor                              *)
(***************************************************************************)

\* The process of a running primary is killed: ~SingleApplicationPrivate
\* does not run, so the block keeps what startPrimary wrote.  The operating
\* system closes the listening socket and the attachment of the process;
\* a segment without attachment is gone before the next create(): at once
\* on Windows, by the attach() and delete at the head of the constructor
\* elsewhere.
Crash(p) ==
    /\ pc[p] = "running"
    /\ m_server[p]
    /\ m_socket' = [m_socket EXCEPT ![p] = "null"]
    /\ m_server' = [m_server EXCEPT ![p] = FALSE]
    /\ attached' = attached \ {p}
    /\ IF attached' = {}
       THEN /\ segment' = FALSE
            /\ block' = FreshBlock
       ELSE UNCHANGED <<segment, block>>
    /\ pc' = [pc EXCEPT ![p] = "idle"]
    /\ expired' = [expired EXCEPT ![p] = FALSE]
    /\ m_instanceNumber' = [m_instanceNumber EXCEPT ![p] = MinusOne32]
    /\ role' = [role EXCEPT ![p] = "none"]
    /\ connectLog' = [connectLog EXCEPT ![p] = <<>>]
    /\ reinitialized' = [reinitialized EXCEPT ![p] = FALSE]
    /\ UNCHANGED <<lockedBy, assigned, launches>>
    /\ UNCHANGED lsnVars

CrashNext == Next \/ \E p \in Procs : Crash(p)

CrashSpec == Init /\ [][CrashNext]_vars

(***************************************************************************)
(* A long-lived primary.  m_secondary is a quint32 that every secondary    *)
(* increments and nothing but initializeMemoryBlock resets: the start is   *)
(* the block of a running primary with which 2^32 - 2 secondaries have     *)
(* registered, all of which have exited since.                             *)
(***************************************************************************)

\* the block after 2^32 - 2 calls of registerSecondaryBlock
LongLivedBlock ==
    LET w == [startPrimaryBlock(initializeMemoryBlock(FreshBlock), 1)
                 EXCEPT !.m_secondary = <<254, 255, 255, 255>>]
    IN  [w EXCEPT !.m_checksum = blockChecksum(w)]

\* Process 1 is the running primary; the ids handed out before are not
\* kept in assigned.
LongLivedInit ==
    /\ pc = [p \in Procs |-> IF p = 1 THEN "running" ELSE "idle"]
    /\ segment = TRUE
    /\ attached = {1}
    /\ block = LongLivedBlock
    /\ lockedBy = NoProc
    /\ expired = [p \in Procs |-> FALSE]
    /\ m_server = [p \in Procs |-> p = 1]
    /\ m_instanceNumber = [p \in Procs |-> IF p = 1 THEN U32(0) ELSE MinusOne32]
    /\ m_socket = [p \in Procs |-> "null"]
    /\ role = [p \in Procs |-> IF p = 1 THEN "Primary" ELSE "none"]
    /\ connectLog = [p \in Procs |-> <<>>]
    /\ assigned = <<>>
    /\ reinitialized = [p \in Procs |-> FALSE]
    /\ launches = 1
    /\ m_blockServerName = <<97>>
    /\ m_options = {}
    /\ NoConnections

LongLivedSpec == LongLivedInit /\ [][Next]_vars

(***************************************************************************)
(* The listener of the primary.  Each callback of a socket runs to its end *)
(* in the event loop of the primary: one step.                             *)
(***************************************************************************)

\* Process 1 has created the segment and has become primary.
ListenerInit ==
    /\ pc = [p \in Procs |-> IF p = 1 THEN "running" ELSE "idle"]
    /\ segment = TRUE
    /\ attached = {1}
    /\ block = startPrimaryBlock(initializeMemoryBlock(FreshBlock), 1)
    /\ lockedBy = NoProc
    /\ expired = [p \in Procs |-> FALSE]
    /\ m_server = [p \in Procs |-> p = 1]
    /\ m_instanceNumber = [p \in Procs |-> IF p = 1 THEN U32(0) ELSE MinusOne32]
    /\ m_socket = [p \in Procs |-> "null"]
    /\ role = [p \in Procs |-> IF p = 1 THEN "Primary" ELSE "none"]
    /\ connectLog = [p \in Procs |-> <<>>]
    /\ assigned = <<>>
    /\ reinitialized = [p \in Procs |-> FALSE]
    /\ launches = 1
    /\ m_blockServerName \in Idents
    /\ m_options \in SUBSET {"SecondaryNotification"}
    /\ NoConnections

\* QMap::insert, QMap::remove, and QMap::operator[], which inserts a
\* default value for a key that is not in the map.
MapInsert(m, c, info) == [x \in DOMAIN m \cup {c} |-> IF x = c THEN info ELSE m[x]]
MapRemove(m, c) == [x \in DOMAIN m \ {c} |-> m[x]]
MapIndex(m, c) == IF c \in DOMAIN m THEN m ELSE MapInsert(m, c, ConnectionInfo)

\* The handshake of the connection has been validated.
Validated(c) == parsed[c].done /\ parsed[c].isValid

\* What a callback leaves: the unread bytes, the record, the signals it
\* emitted, the outcome of the validation, and whether it closed the socket
\* or ended the process.
Outcome(avail, info, emitted, result, closed, ended) ==
    [avail |-> avail, info |-> info, emitted |-> emitted, parsed |-> result,
     closed |-> closed, crashed |-> ended]

readInitMessageBody(info, avail, result, crash) ==
    IF ~LengthReached(avail, info.m_messageLength)
    THEN Outcome(avail, info, <<>>, result, FALSE, FALSE)
    ELSE LET messageBytes == ReadBytes(avail, info.m_messageLength)
             rest == UnreadBytes(avail, info.m_messageLength)
             v == Validate(messageBytes, m_blockServerName)
         IN  IF ~ChecksumInsideBody(v.length, v.checksumLength) /\ crash
             THEN \* the read beyond the array ends the process
                  Outcome(rest, info, <<>>, result, FALSE, TRUE)
             ELSE IF ~v.isValid
             THEN \* socket->close(): aboutToClose finds the unread bytes
                  Outcome(<<>>, info,
                          onClientConnectionClosed(rest, info.m_instanceId, FALSE),
                          v, TRUE, FALSE)
             ELSE Outcome(<<>>,
                          [info EXCEPT !.m_instanceId = v.instanceId,
                                       !.m_stage = Connected],
                          (IF emitsInstanceStarted(v.connectionType, m_options)
                           THEN <<InstanceStartedEvent(TRUE)>> ELSE <<>>)
                          \o (IF Len(rest) > 0
                              THEN onDataAvailable(rest, v.instanceId, TRUE)
                              ELSE <<>>),
                          v, FALSE, FALSE)

readInitMessageHeader(info, avail, result, crash) ==
    IF Len(avail) < 8
    THEN Outcome(avail, info, <<>>, result, FALSE, FALSE)
    ELSE LET messageLength == Take(avail, 8)
             rest == Drop(avail, 8)
             body == [info EXCEPT !.m_stage = Body, !.m_messageLength = messageLength]
         IN  IF LengthReached(rest, messageLength)
             THEN readInitMessageBody(body, rest, result, crash)
             ELSE Outcome(rest, body, <<>>, result, FALSE, FALSE)

\* The frames that peers of this primary send: any of those made for its
\* identifier, and the handshake of a rejected process of another
\* application.
PeerFrames ==
    {f \in AllPeerFrames :
        \/ f.name = m_blockServerName
        \/ f.fault = "none" /\ f.type = NewInstance /\ f.id = MinusOne32}

\* A peer connects and writes its frame and n bytes after it:
\* nextPendingConnection(), the record is inserted and the three callbacks
\* are connected.
onConnectionEstablished(c, f, n) ==
    /\ ~crashed
    /\ sock[c] = "none"
    /\ sock' = [sock EXCEPT ![c] = "connected"]
    /\ peer' = [peer EXCEPT ![c] = [name |-> f.name, type |-> f.type, id |-> f.id,
                                    fault |-> f.fault, payload |-> n]]
    /\ wire' = [wire EXCEPT ![c] = FrameBytes[f] \o Payload(n)]
    /\ m_connectionMap' = MapInsert(m_connectionMap, c, ConnectionInfo)
    /\ UNCHANGED <<m_blockServerName, m_options, buf, events, parsed, crashed>>
    /\ UNCHANGED arbVars
    /\ UNCHANGED sndVars

\* The readyRead callback of a listener that would read a handshake anew
\* after each message.
onReadyReadRestarting(c, info, avail, crash) ==
    CASE info.m_stage = Header ->
            readInitMessageHeader(info, avail, parsed[c], crash)
      [] info.m_stage = Body ->
            readInitMessageBody(info, avail, parsed[c], crash)
      [] info.m_stage = Connected ->
            Outcome(<<>>, [info EXCEPT !.m_stage = Header],
                    onDataAvailable(avail, info.m_instanceId, Validated(c)),
                    parsed[c], FALSE, FALSE)

\* The readyRead callback: the record is looked up and the bytes go to
\* the reader of its stage.
onReadyRead(c, info, avail, crash) ==
    CASE info.m_stage = Header ->
            readInitMessageHeader(info, avail, parsed[c], crash)
      [] info.m_stage = Body ->
            readInitMessageBody(info, avail, parsed[c], crash)
      [] info.m_stage = Connected ->
            Outcome(<<>>, info,
                    onDataAvailable(avail, info.m_instanceId, Validated(c)),
                    parsed[c], FALSE, FALSE)

\* k more bytes arrive and readyRead is emitted.  A close() inside the
\* callback emits aboutToClose, which passes the unread bytes on, then
\* disconnected, which removes the record, then aboutToClose once more,
\* which looks the record up again.
readyRead(c, k, crash) ==
    /\ ~crashed
    /\ sock[c] = "connected"
    /\ k \in 1..Len(wire[c])
    /\ LET map == MapIndex(m_connectionMap, c)
       IN  \E out \in {onReadyRead(c, map[c], buf[c] \o Take(wire[c], k), crash)} :
           /\ wire' = [wire EXCEPT ![c] = Drop(@, k)]
           /\ buf' = [buf EXCEPT ![c] = out.avail]
           /\ events' = [events EXCEPT ![c] = @ \o out.emitted]
           /\ parsed' = [parsed EXCEPT ![c] = out.parsed]
           /\ crashed' = out.crashed
           /\ sock' = [sock EXCEPT ![c] = IF out.closed THEN "closed" ELSE @]
           /\ m_connectionMap' =
                IF out.closed
                THEN MapIndex(MapRemove(map, c), c)
                ELSE [map EXCEPT ![c] = out.info]
    /\ UNCHANGED <<m_blockServerName, m_options, peer>>
    /\ UNCHANGED arbVars
    /\ UNCHANGED sndVars

\* The peer ends the connection, whatever it has left to write: the
\* disconnected callback removes the record and calls deleteLater().
disconnected(c) ==
    /\ ~crashed
    /\ sock[c] = "connected"
    /\ sock' = [sock EXCEPT ![c] = "unconnected"]
    /\ wire' = [wire EXCEPT ![c] = <<>>]
    /\ m_connectionMap' = MapRemove(m_connectionMap, c)
    /\ UNCHANGED <<m_blockServerName, m_options, buf, events, peer, parsed, crashed>>
    /\ UNCHANGED arbVars
    /\ UNCHANGED sndVars

\* The event loop deletes the socket.  ~QLocalSocket calls close(): a
\* socket that is still open emits aboutToClose, whose callback looks the
\* record up and passes the unread bytes on.
deleteLater(c) ==
    /\ ~crashed
    /\ sock[c] \in {"unconnected", "closed"}
    /\ sock' = [sock EXCEPT ![c] = "deleted"]
    /\ IF sock[c] = "unconnected"
       THEN LET map == MapIndex(m_connectionMap, c)
            IN  /\ m_connectionMap' = map
                /\ events' = [events EXCEPT ![c] =
                      @ \o onClientConnectionClosed(buf[c], map[c].m_instanceId,
                                                    Validated(c))]
                /\ buf' = [buf EXCEPT ![c] = <<>>]
       ELSE UNCHANGED <<m_connectionMap, events, buf>>
    /\ UNCHANGED <<m_blockServerName, m_options, wire, peer, parsed, crashed>>
    /\ UNCHANGED arbVars
    /\ UNCHANGED sndVars

ListenerNext ==
    \E c \in Conns :
        \/ \E f \in PeerFrames, n \in {0, MaxPayload} : onConnectionEstablished(c, f, n)
        \/ \E k \in {ChunkSize, Len(wire[c])}, crash \in BOOLEAN : readyRead(c, k, crash)
        \/ disconnected(c)
        \/ deleteLater(c)

ListenerSpec == ListenerInit /\ [][ListenerNext]_vars

(***************************************************************************)
(* A slot that runs an event loop.  messageReceived is emitted inside the  *)
(* readyRead callback; while a slot of the host connected to it runs an    *)
(* event loop (a dialog, processEvents), bytes that arrive are buffered    *)
(* and readyRead, which is not emitted recursively, is not emitted for     *)
(* them.                                                                   *)
(***************************************************************************)

\* k bytes arrive while the slot of the last messageReceived runs.
bytesArriveInSlot(c, k) ==
    /\ ~crashed
    /\ sock[c] = "connected"
    /\ c \in DOMAIN m_connectionMap
    /\ m_connectionMap[c].m_stage = Connected
    /\ events[c] # <<>>
    /\ events[c][Len(events[c])].sig = "messageReceived"
    /\ k \in 1..Len(wire[c])
    /\ wire' = [wire EXCEPT ![c] = Drop(@, k)]
    /\ buf' = [buf EXCEPT ![c] = @ \o Take(wire[c], k)]
    /\ UNCHANGED <<m_blockServerName, m_options, sock, m_connectionMap, events,
                   peer, parsed, crashed>>
    /\ UNCHANGED arbVars
    /\ UNCHANGED sndVars

SlotNext ==
    \/ ListenerNext
    \/ \E c \in Conns :
          \/ readyRead(c, 1, FALSE)
          \/ bytesArriveInSlot(c, 1)

SlotSpec == ListenerInit /\ [][SlotNext]_vars

(***************************************************************************)
(* sendMessage.  The secondaries of a running primary send payloads; the   *)
(* primary reads them in the callbacks of the listener.                    *)
(***************************************************************************)

\* the block after n secondaries have registered
RECURSIVE RegisterSecondaries(_, _)
RegisterSecondaries(b, n) ==
    IF n = 0 THEN b ELSE RegisterSecondaries(registerSecondaryBlock(b), n - 1)

\* Process 1 is the running primary; the other processes have started one
\* after the other as secondaries without SecondaryNotification.
SendInit ==
    /\ pc = [p \in Procs |-> "running"]
    /\ segment = TRUE
    /\ attached = Procs
    /\ block = RegisterSecondaries(
                  startPrimaryBlock(initializeMemoryBlock(FreshBlock), 1),
                  NProcs - 1)
    /\ lockedBy = NoProc
    /\ expired = [p \in Procs |-> FALSE]
    /\ m_server = [p \in Procs |-> p = 1]
    /\ m_instanceNumber = [p \in Procs |-> U32(p - 1)]
    /\ m_socket = [p \in Procs |-> "null"]
    /\ role = [p \in Procs |-> IF p = 1 THEN "Primary" ELSE "Secondary"]
    /\ connectLog = [p \in Procs |-> <<>>]
    /\ assigned = [k \in 1..(NProcs - 1) |-> U32(k)]
    /\ reinitialized = [p \in Procs |-> FALSE]
    /\ launches = NProcs
    /\ m_blockServerName \in Idents
    /\ m_options = {}
    /\ NoConnections

\* What sendMessage returned, with what it did: the connectToServer and
\* write calls it made, the state of the socket at the write, and whether
\* the whole of the message had left the write buffer when it returned.
Call(message, connects, writes, connected, complete, result) ==
    [message |-> message, connects |-> connects, writes |-> writes,
     connected |-> connected, complete |-> complete, result |-> result]

\* sendMessage(message, timeout) of process p.  connected is the outcome of
\* connectToServer / waitForConnected for a socket that is not connected;
\* written is the number of bytes of the write buffer that the socket has
\* taken when waitForBytesWritten and flush have returned.
\* waitForBytesWritten returns true when at least one byte was written
\* during the wait, and false at once for an empty buffer.  The handshake
\* of a new connection has left with the flush of connectToPrimary.
sendMessage(p, c, message, connected, written) ==
    /\ ~crashed
    /\ pc[p] = "running"
    /\ Len(calls[p]) < MaxSends
    /\ IF m_server[p]
       THEN \* Nobody to connect to
            /\ c = 1 /\ connected = FALSE /\ written = 0
            /\ calls' = [calls EXCEPT ![p] =
                  Append(@, Call(message, 0, 0, FALSE, FALSE, FALSE))]
            /\ UNCHANGED <<m_socket, connectLog, pending, conn, sock, wire,
                           m_connectionMap, peer>>
       ELSE LET isNew == m_socket[p] # "ConnectedState" /\ connected
                isConnected == m_socket[p] = "ConnectedState" \/ connected
                attempts == IF m_socket[p] \in {"null", "UnconnectedState"}
                            THEN 1 ELSE 0
                initial == IF isNew
                           THEN handshake(m_blockServerName, Reconnect,
                                          m_instanceNumber[p])
                           ELSE <<>>
                buffer == pending[p] \o message
            IN  /\ connectToPrimary(p, Reconnect, connected)
                /\ IF m_socket[p] = "ConnectedState"
                   THEN c = conn[p] /\ connected
                   ELSE connected => sock[c] = "none"
                /\ IF isConnected
                   THEN /\ written \in 0..Len(buffer)
                        /\ wire' = [wire EXCEPT ![c] =
                                       @ \o initial \o Take(buffer, written)]
                        /\ pending' = [pending EXCEPT ![p] = Drop(buffer, written)]
                        /\ calls' = [calls EXCEPT ![p] =
                              Append(@, Call(message, attempts, 1, TRUE,
                                             written = Len(buffer), written >= 1))]
                   ELSE \* write() on a socket that is not open fails
                        /\ written = 0
                        /\ calls' = [calls EXCEPT ![p] =
                              Append(@, Call(message, attempts, 1, FALSE, FALSE, FALSE))]
                        /\ UNCHANGED <<wire, pending>>
                /\ IF isNew
                   THEN /\ conn' = [conn EXCEPT ![p] = c]
                        /\ sock' = [sock EXCEPT ![c] = "connected"]
                        /\ peer' = [peer EXCEPT ![c] =
                              [name |-> m_blockServerName, type |-> Reconnect,
                               id |-> m_instanceNumber[p], fault |-> "none",
                               payload |-> 0]]
                        /\ m_connectionMap' = MapInsert(m_connectionMap, c, ConnectionInfo)
                   ELSE UNCHANGED <<conn, sock, peer, m_connectionMap>>
    /\ UNCHANGED <<pc, segment, attached, block, lockedBy, expired, m_server,
                   m_instanceNumber, role, assigned, reinitialized, launches>>
    /\ UNCHANGED <<m_blockServerName, m_options, buf, events, parsed, crashed>>

\* Back in its event loop, the process writes what was left in the write
\* buffer of m_socket.
bytesWritten(p) ==
    /\ ~crashed
    /\ pending[p] # <<>>
    /\ m_socket[p] = "ConnectedState"
    /\ wire' = [wire EXCEPT ![conn[p]] = @ \o pending[p]]
    /\ pending' = [pending EXCEPT ![p] = <<>>]
    /\ UNCHANGED arbVars
    /\ UNCHANGED <<m_blockServerName, m_options, sock, buf, m_connectionMap,
                   events, peer, parsed, crashed, calls, conn>>

\* The messages passed to sendMessage.
Payloads == {Payload(0), Payload(MaxPayload)}

SendNext ==
    \/ \E p \in Procs, c \in Conns, message \in Payloads, connected \in BOOLEAN,
          written \in {0, 1, MaxPayload} :
          sendMessage(p, c, message, connected, written)
    \/ \E p \in Procs : bytesWritten(p)
    \/ \E c \in Conns :
          \E k \in {ChunkSize, Len(wire[c])}, crash \in BOOLEAN :
             readyRead(c, k, crash)

SendSpec == SendInit /\ [][SendNext]_vars

(***************************************************************************)
(* A connection that completes later.  connectToServer leaves m_socket in  *)
(* ConnectingState when the listener cannot take the connection at once;   *)
(* after waitForConnected has timed out the socket goes on connecting in   *)
(* the event loop of the process.                                          *)
(***************************************************************************)

\* The connection of m_socket is established after connectToPrimary has
\* returned: nothing is written.
connectedLater(p, c) ==
    /\ ~crashed
    /\ pc[p] = "running"
    /\ m_socket[p] = "ConnectingState"
    /\ Listening
    /\ sock[c] = "none"
    /\ m_socket' = [m_socket EXCEPT ![p] = "ConnectedState"]
    /\ conn' = [conn EXCEPT ![p] = c]
    /\ sock' = [sock EXCEPT ![c] = "connected"]
    /\ peer' = [peer EXCEPT ![c] =
          [name |-> m_blockServerName, type |-> Reconnect,
           id |-> m_instanceNumber[p], fault |-> "absent", payload |-> 0]]
    /\ m_connectionMap' = MapInsert(m_connectionMap, c, ConnectionInfo)
    /\ UNCHANGED <<pc, segment, attached, block, lockedBy, expired, m_server,
                   m_instanceNumber, role, connectLog, assigned, reinitialized,
                   launches>>
    /\ UNCHANGED <<m_blockServerName, m_options, wire, buf, events, parsed,
                   crashed, calls, pending>>

ConnectNext ==
    \/ SendNext
    \/ \E p \in Procs, c \in Conns : connectedLater(p, c)

ConnectSpec == SendInit /\ [][ConnectNext]_vars

(***************************************************************************)
(* Properties of the arbitration                                           *)
(***************************************************************************)

\* C1: at any time at most one live process has been granted the primary
\* role (has its m_server set).
AtMostOnePrimary == Cardinality({p \in Procs : m_server[p]}) <= 1

\* C2: the ids handed out since the last startPrimary are 1, 2, 3, ... in
\* the order in which the secondaries took the lock.
SecondaryIdsCountFromOne == \A k \in 1..Len(assigned) : assigned[k] = U32(k)

\* C3: no two live secondaries attached to the block have the same id.
UniqueSecondaryIds ==
    \A p, q \in Procs :
        (/\ p # q
         /\ role[p] = "Secondary" /\ role[q] = "Secondary"
         /\ p \in attached /\ q \in attached)
        => m_instanceNumber[p] # m_instanceNumber[q]

\* C6: a process that ran the timeout reinitialization is the one that
\* becomes primary: once its role is decided, the role is Primary.
ReinitializerBecomesPrimary ==
    \A p \in Procs : reinitialized[p] => role[p] \in {"none", "Primary"}

\* a is the registered primary and is alive
Registered(a) ==
    /\ m_server[a]
    /\ segment
    /\ block.m_primary
    /\ block.m_primaryPid = applicationPid(a)

\* a step of process p that is not a primary and not the creator of the
\* segment before its initialization: starting, running, querying, exiting
SecondaryStep(p) ==
    /\ pc'[p] # pc[p]
    /\ ~m_server[p]
    /\ pc[p] # "created"

\* C8: while a primary a is registered and alive, no step of another process
\* that starts, runs, queries or exits as a non-primary changes is_primary,
\* primary_pid or primary_user, and the segment stays.
SecondariesLeavePrimaryFields ==
    [][\A a \in Procs : Registered(a) =>
          \A p \in Procs \ {a} : SecondaryStep(p) =>
              /\ segment'
              /\ block'.m_primary = block.m_primary
              /\ block'.m_primaryPid = block.m_primaryPid
              /\ block'.m_primaryUser = block.m_primaryUser]_vars

SecondariesLeavePrimaryFieldsWitness ==
    \E a \in Procs : /\ Registered(a)
                     /\ block.m_secondary = U32(2)
                     /\ \E p \in Procs \ {a} : /\ role[p] = "Secondary"
                                               /\ pc[p] = "primaryUser"

RejectedInv ==
    \A p \in Procs : role[p] = "Rejected" =>
        /\ ~m_server[p]
        /\ lockedBy # p
        /\ pc[p] \in {"rej_connect", "exit_success"}
        /\ pc[p] = "rej_connect" => connectLog[p] = <<>>
        /\ pc[p] = "exit_success" =>
              /\ Len(connectLog[p]) = 1
              /\ connectLog[p][1].type = NewInstance
              /\ ~connectLog[p][1].locked

RejectedStep ==
    \A p \in Procs :
        (pc'[p] # pc[p] /\ (role[p] = "Rejected" \/ role'[p] = "Rejected"))
        => (segment' => block' = block)

\* C9: a process refused because allowSecondary is false and a primary is
\* registered never has a listener, changes no field of the block, makes
\* exactly one NewInstance connection attempt, made without the lock, and
\* goes on to exit(EXIT_SUCCESS).
RejectedLeavesBlock == []RejectedInv /\ [][RejectedStep]_vars

RejectedLeavesBlockWitness ==
    \E p \in Procs : /\ role[p] = "Rejected"
                     /\ pc[p] = "exit_success"
                     /\ connectLog[p][1].handshake

\* C12: from the creation of the segment on, whenever no process holds the
\* lock the stored m_checksum is blockChecksum() of the block as it is.
StoredChecksumMatchesWhenUnlocked ==
    (segment /\ lockedBy = NoProc) => block.m_checksum = blockChecksum(block)

\* C17: a secondary with SecondaryNotification has released the lock before
\* it connects: no process is inside connectToPrimary while it holds the
\* lock, and no connectToPrimary call was made with the lock held.
NoConnectWhileLocked ==
    \A p \in Procs :
        /\ pc[p] = "sec_connect" => lockedBy # p
        /\ \A i \in DOMAIN connectLog[p] : ~connectLog[p][i].locked

\* The block after a write of m_primaryUser alone, m_checksum left as it
\* was: the strncpy of startPrimary with the name of a process, or the
\* m_primaryUser[0] = '\0' of initializeMemoryBlock and of the destructor.
UserWrites(b) ==
    {[b EXCEPT !.m_primaryUser = CopyUser(@, getUsername(q))] : q \in Procs}
    \cup {[b EXCEPT !.m_primaryUser = [@ EXCEPT ![1] = 0]]}

\* C19: blockChecksum() covers m_primaryUser: in a block whose stored
\* checksum matches, a write that changes m_primaryUser and nothing else
\* leaves a stored checksum that no longer matches.
ChecksumCoversPrimaryUser ==
    (segment /\ block.m_checksum = blockChecksum(block)) =>
        \A w \in UserWrites(block) :
            w.m_primaryUser # block.m_primaryUser
            => blockChecksum(w) # w.m_checksum

\* a process whose create() and attach() have both failed
FailedInv ==
    \A p \in Procs :
        /\ role[p] = "Failed" <=> pc[p] = "exit_failure"
        /\ pc[p] = "exit_failure" =>
              /\ ~m_server[p]
              /\ m_socket[p] = "null"
              /\ connectLog[p] = <<>>
              /\ p \notin attached
              /\ lockedBy # p

\* the step in which attach() fails, and the exit that follows it
FailedStep ==
    \A p \in Procs :
        /\ (pc[p] = "attach" /\ ~segment /\ pc'[p] # pc[p])
              => pc'[p] = "exit_failure"
        /\ (pc'[p] # pc[p] /\ "exit_failure" \in {pc[p], pc'[p]}) =>
              /\ block' = block
              /\ segment' = segment
              /\ m_server' = m_server
              /\ lockedBy' = lockedBy
              /\ pc'[p] \in {"exit_failure", "idle"}

\* C15: a process that can neither create the segment nor attach to it
\* ends in exit(EXIT_FAILURE), an outcome that is none of Primary, Secondary
\* and Rejected: it never has a listener or a connection, holds no lock,
\* and leaves the block and the segment as they are.
FailedAttachExits == []FailedInv /\ [][FailedStep]_vars

FailedAttachExitsWitness ==
    \E p, q \in Procs : /\ pc[p] = "exit_failure"
                        /\ role[p] = "Failed"
                        /\ segment
                        /\ m_server[q]

\* The lock is held across steps only inside the constructor's secondary
\* branch and inside primaryPid() and primaryUser(), and there by the
\* process that is in them.
LockHeldOnlyInside ==
    /\ lockedBy \in Procs \cup {NoProc}
    /\ \A p \in Procs :
          /\ lockedBy = p => pc[p] \in {"sec_connect", "primaryPid", "primaryUser"}
          /\ pc[p] \in {"primaryPid", "primaryUser"} => lockedBy = p

\* A step that writes the block, or that reads it in the wait loop, is
\* taken by a process as it acquires the free lock; while a process holds
\* the lock across steps the block stays as it is; a process that leaves
\* the constructor, a query or the destructor does not hold the lock.
LockedAccessStep ==
    /\ block' # block => lockedBy = NoProc
    /\ \A p \in Procs :
          /\ (pc[p] \in {"created", "loop"} /\ pc'[p] # pc[p]) => lockedBy = NoProc
          /\ (pc[p] = "loop" /\ reinitialized'[p] # reinitialized[p])
                => lockedBy = NoProc /\ lockedBy' = NoProc
          /\ (pc'[p] # pc[p]
              /\ pc'[p] \in {"running", "rej_connect", "exit_success",
                             "exit_failure", "idle"})
                => lockedBy' # p

\* C13: every read and write of the block is made by a process that holds
\* the lock, and every way out of the arbitration (primary, secondary,
\* rejected, the reinitialization after the timeout), of primaryPid(), of
\* primaryUser() and of the destructor releases it.
BlockAccessUnderLock == []LockHeldOnlyInside /\ [][LockedAccessStep]_vars

BlockAccessUnderLockWitness ==
    \E p, q \in Procs : /\ lockedBy = p
                        /\ pc[p] = "sec_connect"
                        /\ pc[q] = "loop"
                        /\ reinitialized[q]

\* The block has been initialised and no process holds the lock.
BlockAtRest ==
    /\ segment
    /\ lockedBy = NoProc
    /\ block.m_checksum = blockChecksum(block)

\* a process that leaves the wait loop while m_primary is false becomes primary
StartsAsPrimary ==
    \A p \in Procs :
        (pc[p] = "loop" /\ pc'[p] # "loop" /\ ~block.m_primary)
        => (role'[p] = "Primary" /\ m_server'[p])

\* C18: whenever the block is initialised and unlocked, m_primary is true
\* exactly when some live process is the registered primary (it has its
\* listener and its destructor has not run), also after a primary has ended
\* without its destructor; and a process that starts while m_primary is
\* false becomes primary.
PrimaryFlagMeansLivePrimary ==
    /\ [](BlockAtRest => (block.m_primary <=> \E a \in Procs : m_server[a]))
    /\ [][StartsAsPrimary]_vars

\* C16: with the lock granted fairly and released by its holders, and with
\* the time passing, every process that has created or attached the segment
\* leaves the wait loop and is Primary, Secondary or Rejected, whatever the
\* block holds and whichever other processes start meanwhile.
ArbitrationTerminates ==
    \A p \in Procs :
        (pc[p] \in {"created", "loop"})
        ~> (role[p] \in {"Primary", "Secondary", "Rejected"})

ArbitrationTerminatesWitness ==
    \E p, q \in Procs : /\ reinitialized[p]
                        /\ role[p] = "Rejected"
                        /\ role[q] = "Primary"
                        /\ pc[q] = "running"

\* C23: instance id 0 belongs to the primary only: a process reports
\* instanceId() = 0 exactly if it is the primary, and no secondary is
\* given the id 0, also when m_secondary is incremented past the largest
\* 32-bit value.
IdZeroIsThePrimary ==
    \A p \in Procs :
        /\ m_instanceNumber[p] = U32(0) <=> m_server[p]
        /\ role[p] = "Secondary" => m_instanceNumber[p] # U32(0)

(***************************************************************************)
(* Properties of the listener                                              *)
(***************************************************************************)

Signals(c, sig) == {i \in 1..Len(events[c]) : events[c][i].sig = sig}

\* C4: a connection whose handshake body failed the validation of
\* readInitMessageBody has no instanceStarted and no messageReceived
\* emitted for it, whatever the peer sent and whichever callbacks ran.
InvalidHandshakeEmitsNothing ==
    \A c \in Conns : (parsed[c].done /\ ~parsed[c].isValid) => events[c] = <<>>

RECURSIVE Concat(_)
Concat(ss) == IF ss = <<>> THEN <<>> ELSE Head(ss) \o Concat(Tail(ss))

\* the messages of the messageReceived events of c, in the order of emission
Messages(c) ==
    LET RECURSIVE Pick(_)
        Pick(i) == IF i > Len(events[c]) THEN <<>>
                   ELSE IF events[c][i].sig = "messageReceived"
                        THEN <<events[c][i].message>> \o Pick(i + 1)
                        ELSE Pick(i + 1)
    IN  Pick(1)

\* s is a run of consecutive bytes of t
Occurs(s, t) ==
    \E i \in 0..(Len(t) - Len(s)) : SubSeq(t, i + 1, i + Len(s)) = s

Sent(c) == FrameBytes[[name |-> peer[c].name, type |-> peer[c].type,
                       id |-> peer[c].id, fault |-> peer[c].fault]]
           \o Payload(peer[c].payload)

\* the events of a connection carry bytes of the peer in the order they
\* were read
MessagesInOrder ==
    \A c \in Conns : sock[c] # "none" => Occurs(Concat(Messages(c)), Sent(c))

\* every messageReceived of a connection comes after its handshake has been
\* validated
MessagesOnlyAfterValidation ==
    \A c \in Conns : \A i \in Signals(c, "messageReceived") : events[c][i].validated

\* C5: each messageReceived of a connection is emitted only after the
\* handshake of that connection has been validated, the close and
\* disconnect paths included, and the events of a connection carry the
\* bytes in the order they were read.
MessagesAfterValidationInOrder == MessagesOnlyAfterValidation /\ MessagesInOrder

\* the peer wrote the handshake of connectToPrimary with the identifier of
\* the primary
SameIdentifierHandshake(c) ==
    /\ sock[c] # "none"
    /\ peer[c].fault = "none"
    /\ peer[c].name = m_blockServerName

\* C7: the handshake frame written by connectToPrimary for an identifier, a
\* connection type and an instance id, once parsed by readInitMessageHeader
\* and readInitMessageBody of a primary with the same identifier, passes
\* validation and yields that identifier, type and instance id.
HandshakeRoundTrip ==
    \A c \in Conns :
        (SameIdentifierHandshake(c) /\ parsed[c].done) =>
            /\ parsed[c].isValid
            /\ parsed[c].latin1Name = peer[c].name
            /\ parsed[c].connectionType = peer[c].type
            /\ parsed[c].instanceId = peer[c].id
            /\ sock[c] = "connected" =>
                  /\ m_connectionMap[c].m_stage = Connected
                  /\ m_connectionMap[c].m_instanceId = peer[c].id

HandshakeRoundTripWitness ==
    \E c \in Conns :
        /\ SameIdentifierHandshake(c)
        /\ peer[c].type = Reconnect
        /\ peer[c].id = MinusOne32
        /\ peer[c].name = <<97, 98>>
        /\ parsed[c].done
        /\ sock[c] = "connected"
        /\ m_connectionMap[c].m_instanceId = MinusOne32

\* C10: instanceStarted is emitted for a connection at most once, and
\* exactly when its handshake validates with type NewInstance, or with type
\* SecondaryInstance while the primary has SecondaryNotification set; any
\* other validated handshake reaches stage Connected without it.
InstanceStartedExactlyWhenQualified ==
    \A c \in Conns :
        /\ Cardinality(Signals(c, "instanceStarted")) =
              IF /\ Validated(c)
                 /\ \/ parsed[c].connectionType = NewInstance
                    \/ /\ parsed[c].connectionType = SecondaryInstance
                       /\ "SecondaryNotification" \in m_options
              THEN 1 ELSE 0
        /\ (Validated(c) /\ sock[c] = "connected") =>
              m_connectionMap[c].m_stage = Connected

InstanceStartedExactlyWhenQualifiedWitness ==
    \E c \in Conns :
        /\ Validated(c)
        /\ parsed[c].connectionType = SecondaryInstance
        /\ m_options = {}
        /\ sock[c] = "connected"
        /\ m_connectionMap[c].m_stage = Connected
        /\ Len(events[c]) = 1
        /\ events[c][1].sig = "messageReceived"

\* C20: whatever length the header announces, 0, 1 and 2^63 and more
\* included, readInitMessageBody takes the checksum over bytes of the body
\* it has read (its length less two, never a wrapped length), the primary
\* goes on running, and a body that fails has its connection closed and
\* its record gone from the map once the socket is deleted.
ChecksumRangeInsideBody ==
    /\ ~crashed
    /\ \A c \in Conns : parsed[c].done =>
          /\ ChecksumInsideBody(parsed[c].length, parsed[c].checksumLength)
          /\ ~parsed[c].isValid =>
                /\ sock[c] \in {"closed", "deleted"}
                /\ sock[c] = "deleted" => c \notin DOMAIN m_connectionMap

(***************************************************************************)
(* Properties of sendMessage                                               *)
(***************************************************************************)

ConnectedCalls(p) == SelectSeq(calls[p], LAMBDA call : call.connected)

\* the messageReceived events of connection c: instance id and message
Received(c) ==
    LET received == SelectSeq(events[c], LAMBDA e : e.sig = "messageReceived")
    IN  [i \in DOMAIN received |->
            [instanceId |-> received[i].instanceId, message |-> received[i].message]]

\* every byte that p has sent has been read by the primary
Delivered(p) ==
    /\ conn[p] # NoConn
    /\ pending[p] = <<>>
    /\ wire[conn[p]] = <<>>
    /\ buf[conn[p]] = <<>>
    /\ m_connectionMap[conn[p]].m_stage = Connected

\* C11: when a secondary with id N calls sendMessage(p, timeout) while the
\* primary is registered and reachable, the call returns true and the
\* primary emits exactly one messageReceived for it, with id N and with
\* the message p.
EachMessageReceivedOnce ==
    \A p \in Procs : Delivered(p) =>
        /\ \A i \in DOMAIN ConnectedCalls(p) : ConnectedCalls(p)[i].result
        /\ Received(conn[p]) =
              [i \in DOMAIN ConnectedCalls(p) |->
                  [instanceId |-> m_instanceNumber[p],
                   message |-> ConnectedCalls(p)[i].message]]

(***************************************************************************)
(* Properties of the connection records                                    *)
(***************************************************************************)

\* the disconnected callback of c runs in this step and removes its record
RecordRemoved(c) == sock[c] = "connected" /\ sock'[c] # "connected"

\* the record of c is put into the map in this step
RecordCreated(c) ==
    /\ c \in DOMAIN m_connectionMap'
    /\ c \notin DOMAIN m_connectionMap \/ RecordRemoved(c)

\* C21: the stage of a connection record only moves forward along Header,
\* Body, Connected: a record is created in Header, no callback moves a
\* record back to an earlier stage, and a record that is Connected stays
\* Connected until it is removed.
StageMovesForward ==
    [][\A c \in Conns :
          /\ RecordCreated(c) => m_connectionMap'[c].m_stage = Header
          /\ (c \in DOMAIN m_connectionMap /\ c \in DOMAIN m_connectionMap'
                /\ ~RecordRemoved(c))
                => m_connectionMap'[c].m_stage >= m_connectionMap[c].m_stage]_vars

\* a record that went through Header and Body is Connected, and a message
\* has been read on its connection since
StageMovesForwardWitness ==
    \E c \in Conns :
        /\ sock[c] = "connected"
        /\ c \in DOMAIN m_connectionMap
        /\ m_connectionMap[c].m_stage = Connected
        /\ wire[c] = <<>>
        /\ \E i \in DOMAIN events[c] : events[c][i].sig = "messageReceived"

\* C25: m_connectionMap holds a record for a socket exactly from its
\* acceptance until its disconnected callback: once that callback has
\* removed the record no later callback of the socket puts one back, so the
\* map has no entry for a connection that is gone.
RecordExactlyWhileConnected ==
    \A c \in Conns : c \in DOMAIN m_connectionMap <=> sock[c] = "connected"

\* C22: for a connection whose handshake was validated with instance id N,
\* the messages of its messageReceived events, put together in the order
\* of emission, are the bytes the peer sent after the handshake frame,
\* those read together with the handshake and those passed on when the
\* socket is closed included: none lost, none twice, none out of order;
\* and each of these events carries N.
PayloadsVerbatim ==
    \A c \in Conns : Validated(c) =>
        /\ \A i \in DOMAIN Received(c) :
              Received(c)[i].instanceId = parsed[c].instanceId
        /\ sock[c] = "connected" =>
              Concat(Messages(c)) \o buf[c] \o wire[c] = Payload(peer[c].payload)
        /\ sock[c] # "connected" =>
              \E n \in 0..peer[c].payload :
                  Concat(Messages(c)) \o buf[c] = Payload(n)
        /\ sock[c] = "deleted" => buf[c] = <<>>

\* the connectToPrimary calls of p that wrote a handshake
Handshakes(p) == SelectSeq(connectLog[p], LAMBDA call : call.handshake)

\* C24: on the connecting side every payload that sendMessage writes on a
\* connection comes after exactly one handshake frame that
\* connectToPrimary wrote on it: whatever the calls, the timeouts of the
\* connect and the moment the connection is established, no payload is
\* written on a connected socket on which no handshake was sent, and no
\* handshake is sent twice.
HandshakePrecedesPayload ==
    \A p \in Procs :
        /\ Len(Handshakes(p)) <= 1
        /\ (\E i \in DOMAIN calls[p] :
                calls[p][i].connected /\ calls[p][i].message # <<>>)
              => Len(Handshakes(p)) = 1
        /\ (conn[p] # NoConn /\ conn[p] \in DOMAIN m_connectionMap
              /\ m_connectionMap[conn[p]].m_stage = Header)
              => LET written == buf[conn[p]] \o wire[conn[p]]
                     frame == handshake(m_blockServerName, Reconnect,
                                        m_instanceNumber[p])
                 IN  written # <<>> => Take(written, Len(frame)) = frame

====
